---- MODULE Spec2Model ----
(***************************************************************************)
(* Model of the stage-gated assessment chat of app/services.               *)
(*                                                                         *)
(* The Flask session is a signed cookie: every request handler works on    *)
(* its own copy of the session, loaded when the request starts and written *)
(* back with the response.  The variable `session' is the cookie the       *)
(* client holds; req[r].sess is the copy a running turn works on.          *)
(* A turn (generate_response) is split at its one blocking point, the call *)
(* of the model provider; every other handler is one atomic action.        *)
(* `peer' is the cookie of a second client of the same server, and         *)
(* conversation_history is the module-level dictionary of app_rag.py.      *)
(* `cookie' is the session cookie of a client of app_rag.py, `now' the      *)
(* clock its handlers read and `http' the request the last step served.    *)
(*                                                                         *)
(* Texts are sequences of symbols.  A symbol stands for one character      *)
(* ("h" a Hebrew letter, "e" a Latin letter, " " a blank, "NL" a newline)  *)
(* or for an unbroken piece of text ("ADVANCE_" and "STAGE" are the two    *)
(* halves of the literal ADVANCE_STAGE).                                   *)
(***************************************************************************)
EXTENDS Integers, Sequences, FiniteSets, TLC

VARIABLES session, req, files, turns, ops, stores, resp,
          peer, conversation_history, client, cookie, now, http,
          assessment, analysis, waiting

vars == <<session, req, files, turns, ops, stores, resp,
          peer, conversation_history, client, cookie, now, http,
          assessment, analysis, waiting>>

(***************************************************************************)
(* Bounds of the model.                                                    *)
(***************************************************************************)
MaxTurns == 2
MaxOps == 1
MaxStores == 3
MaxTextLen == 10
MaxTime == 4
MaxRagTurns == 3

\* the handlers of one session that can wait for the provider at a time
Slots == {1, 2}

None == "none"

(***************************************************************************)
(* Texts.                                                                  *)
(***************************************************************************)
Marker == <<"ADVANCE_", "STAGE">>

IsSpace(c) == c \in {" ", "NL"}

RECURSIVE LStrip(_)
LStrip(s) ==
    IF s = <<>> THEN <<>>
    ELSE IF IsSpace(Head(s)) THEN LStrip(Tail(s)) ELSE s

RECURSIVE RStrip(_)
RStrip(s) ==
    IF s = <<>> THEN <<>>
    ELSE IF IsSpace(s[Len(s)]) THEN RStrip(SubSeq(s, 1, Len(s) - 1)) ELSE s

\* str.strip()
Strip(s) == RStrip(LStrip(s))

StartsWith(s, sub) ==
    /\ Len(sub) <= Len(s)
    /\ SubSeq(s, 1, Len(sub)) = sub

\* sub in s
Contains(s, sub) ==
    \E i \in 1..(Len(s) - Len(sub) + 1) : SubSeq(s, i, i + Len(sub) - 1) = sub

\* s.replace(sub, ""): one pass from the left over non-overlapping matches
RECURSIVE Remove(_, _)
Remove(s, sub) ==
    IF s = <<>> THEN <<>>
    ELSE IF StartsWith(s, sub) THEN Remove(SubSeq(s, Len(sub) + 1, Len(s)), sub)
    ELSE <<Head(s)>> \o Remove(Tail(s), sub)

IsPrefix(s, t) == Len(s) <= Len(t) /\ SubSeq(t, 1, Len(s)) = s

(***************************************************************************)
(* Stage registry.                                                         *)
(***************************************************************************)
\* a registry whose last stage leads back to the first
STAGES_cycle ==
    [apvset        |-> [next |-> "personality"],
     personality   |-> [next |-> "energy"],
     energy        |-> [next |-> "reinforcement"],
     reinforcement |-> [next |-> "final"],
     final         |-> [next |-> "apvset"]]

STAGES ==
    [apvset        |-> [next |-> "personality"],
     personality   |-> [next |-> "energy"],
     energy        |-> [next |-> "reinforcement"],
     reinforcement |-> [next |-> "final"],
     final         |-> [next |-> None]]

StageIds == DOMAIN STAGES

DEFAULT_STAGE == "apvset"

\* session.get('stage', DEFAULT_STAGE)
CurStage(s) == IF s.stage = None THEN DEFAULT_STAGE ELSE s.stage

(***************************************************************************)
(* Language detection.                                                     *)
(***************************************************************************)
\* number of characters a symbol stands for
Width(c) ==
    CASE c \in {"done", "Done", "save"} -> 4
      [] c \in {"review", "REVIEW"}     -> 6
      [] OTHER                          -> 1

RECURSIVE TextLen(_)
TextLen(s) == IF s = <<>> THEN 0 ELSE Width(Head(s)) + TextLen(Tail(s))

\* hebrew_pattern, [\u0590-\u05FF]: "h" is a Hebrew letter, "U+0590" and
\* "U+05FF" are the ends of the block, "U+058F" and "U+0600" its neighbours
IsHebrew(c) == c \in {"h", "U+0590", "U+05FF"}

\* len(hebrew_pattern.findall(text))
RECURSIVE HebrewCount(_)
HebrewCount(s) ==
    IF s = <<>> THEN 0
    ELSE (IF IsHebrew(Head(s)) THEN 1 ELSE 0) + HebrewCount(Tail(s))

\* detect_language that takes one fifth of the text for Hebrew already
detect_language_ge(text) ==
    IF 10 * HebrewCount(text) >= 2 * TextLen(text) THEN "he" ELSE "en"

\* 'he' if hebrew_count > len(text) * 0.2 else 'en'
detect_language(text) ==
    IF 10 * HebrewCount(text) > 2 * TextLen(text) THEN "he" ELSE "en"

(***************************************************************************)
(* Inputs: user messages and replies of the model provider.                *)
(***************************************************************************)
MsgEn == <<"e", "e", "e">>
MsgHe == <<"h", "h", " ", "h">>

Msgs == {MsgEn, MsgHe}

Rep(c, n) == [i \in 1..n |-> c]

\* messages of up to MaxTextLen characters with up to two Hebrew letters,
\* and messages of four characters with one character at or next to an end
\* of the Hebrew block
DetectTexts ==
    {Rep("h", nk[2]) \o Rep("e", nk[1] - nk[2]) :
        nk \in {x \in (0..MaxTextLen) \X (0..2) : x[2] <= x[1]}}
    \cup {<<c, "e", " ", "e">> : c \in {"U+0590", "U+05FF", "U+058F", "U+0600"}}

\* the words handle_post_completion_action knows, as users type them
MsgDone == <<" ", "Done">>
MsgReview == <<"REVIEW", "NL">>
MsgSave == <<"save">>

CommandMsgs == {MsgDone, MsgReview, MsgSave}

RPlain == <<"w">>
RAdvance == <<"w", " ", "ADVANCE_", "STAGE">>
RStore2 == <<"STORE_DATA:", "k1", "=", "v1", "NL", "STORE_DATA:", "k2", "=", "v2">>

Replies == {RPlain, RAdvance, RStore2}

\* the reply ADVANCE_ADVANCE_STAGESTAGE
RNested == <<"ADVANCE_", "ADVANCE_", "STAGE", "STAGE">>

MarkerReplies == {RPlain, RAdvance, RNested}

FactKeys == {"k1", "k2"}
FactValues == {<<"v1">>, <<"v2">>}

ErrorText == <<"ERROR">>
RedirectToLogin == <<"REDIRECT_TO_LOGIN">>
NoText == <<>>

(***************************************************************************)
(* The session and its history.                                            *)
(***************************************************************************)
NoFacts == [k \in {} |-> NoText]

\* an empty Flask session: no key is set
EmptySession ==
    [sid       |-> FALSE,
     stage     |-> None,
     history   |-> <<>>,
     facts     |-> NoFacts,
     language  |-> None,
     completed |-> FALSE]

\* the template the prompt file of a stage holds
Prompt(stage) == <<"PROMPT", stage>>

\* load_stage_prompt of chat_service, called without argument: stage="apvset"
load_stage_prompt_default == Prompt("apvset")

\* add_message_to_history: a system entry carries session.get('stage')
add_message_to_history(s, message, role) ==
    [s EXCEPT !.history =
        Append(@, [role    |-> role,
                   content |-> message,
                   stage   |-> IF role = "system" THEN s.stage ELSE "-"])]

\* initialize_history
initialize_history(s) == add_message_to_history(s, load_stage_prompt_default, "system")

\* set_stage without the check against the registry
set_stage_nocheck(s, stage) == [s EXCEPT !.stage = stage]

\* set_stage of stage_service: the session after the call
set_stage(s, stage) ==
    IF stage \notin StageIds THEN s ELSE [s EXCEPT !.stage = stage]

\* set_stage that reports success for every id
set_stage_ok_any(stage) == TRUE

\* set_stage of stage_service: whether it reports success
set_stage_ok(stage) == stage \in StageIds

\* advance_stage of stage_service: the session after the call
advance_stage(s) ==
    IF STAGES[CurStage(s)].next = None THEN s
    ELSE set_stage(s, STAGES[CurStage(s)].next)

\* advance_stage of stage_service: whether it reports success
advance_stage_ok(s) ==
    STAGES[CurStage(s)].next # None /\ set_stage_ok(STAGES[CurStage(s)].next)

\* session.get('session_id', 'unknown'): ids are fresh, one per session
SessionId(s) == IF s.sid THEN "id" ELSE "unknown"

\* session.get('user', 'unknown'), cut at '@': no code sets session['user']
Username(s) == "unknown"

\* the snapshot save_assessment_results writes; username is the part of the
\* file name assessment_{username}_{timestamp}.json that names its owner
Snapshot(s) ==
    [username        |-> Username(s),
     session_id      |-> SessionId(s),
     current_stage   |-> CurStage(s),
     assessment_data |-> s.facts]

\* save_assessment_results.  The file name is made of the user name and the
\* second of the save: a save in the second of the latest file replaces that
\* file, a later one adds a file.  A failed write is logged only.
SaveOutcomes == {"failed", "same second", "later second"}

save_assessment_results(f, s, outcome) ==
    CASE outcome = "failed" -> f
      [] outcome = "same second" /\ f # <<>> -> [f EXCEPT ![Len(f)] = Snapshot(s)]
      [] OTHER -> Append(f, Snapshot(s))

Reverse(q) == [i \in 1..Len(q) |-> q[Len(q) + 1 - i]]

\* get_saved_assessment_results(session_id): the snapshots of the files whose
\* name starts with assessment_{session_id}_, the latest first
get_saved_assessment_results(f, session_id) ==
    Reverse(SelectSeq(f, LAMBDA snap : snap.username = session_id))

\* store_assessment_data that keeps the value a key already has
store_keep_first(s, key, value) ==
    [s EXCEPT !.facts =
        [k \in (DOMAIN @) \cup {key} |-> IF k \in DOMAIN @ THEN @[k] ELSE value]]

\* store_assessment_data: session['assessment_data'][key] = value
store_assessment_data(s, key, value) ==
    [s EXCEPT !.facts =
        [k \in (DOMAIN @) \cup {key} |-> IF k = key THEN value ELSE @[k]]]

\* get_session_id: a session without session_id gets one and is put at the
\* first stage
get_session_id(s) ==
    IF s.sid THEN s ELSE set_stage([s EXCEPT !.sid = TRUE], "apvset")

\* reset_session that clears the history and the stage only
reset_keep_facts(s) == [s EXCEPT !.stage = DEFAULT_STAGE, !.history = <<>>]

\* reset_session: session.clear() and initialize_session_state()
reset_session(s) == [EmptySession EXCEPT !.stage = DEFAULT_STAGE]

\* clear_history: session['history'] = []
clear_history(s) == [s EXCEPT !.history = <<>>]

(***************************************************************************)
(* generate_response, up to the call of the model provider.                *)
(***************************************************************************)
\* str.lower(): the symbols that hold upper-case letters
LowerSym(c) ==
    CASE c = "Done"   -> "done"
      [] c = "REVIEW" -> "review"
      [] OTHER        -> c

Lower(s) == [i \in DOMAIN s |-> LowerSym(s[i])]

\* user_message.lower().strip()
Command(msg) == Strip(Lower(msg))

\* handle_post_completion_action: the response, NoText for None
post_completion_response(s, msg) ==
    CASE Command(msg) = <<"review">> -> <<"REVIEW">>
      [] Command(msg) = <<"save">>   -> <<"SAVED">>
      [] Command(msg) = <<"done">>   -> RedirectToLogin
      [] OTHER                       -> NoText

\* handle_post_completion_action: "done" clears the session
post_completion_session(s, msg) ==
    IF Command(msg) = <<"done">> THEN EmptySession ELSE s

\* the language stored from every message
store_language_always(s, msg) == [s EXCEPT !.language = detect_language(msg)]

\* lines 166-173: the language is stored only when the session has none
store_language(s, msg) ==
    IF s.language = None THEN [s EXCEPT !.language = detect_language(msg)] ELSE s

\* lines 163-237 of generate_response(user_message, stage).  stage is not
\* read anywhere in the function.  tmpl: the prompt file can be read.  The
\* result tells whether the handler goes on to call the provider (calling)
\* or has returned (text is what it returned).
PreCall(s0, msg, stage, tmpl) ==
    LET s1 == store_language(s0, msg)
        shortcut == s1.completed /\ post_completion_response(s1, msg) # NoText
        s2 == IF s1.history = <<>> THEN initialize_history(s1) ELSE s1
        s3 == add_message_to_history(s2, msg, "user")
    IN  IF shortcut
        THEN [calling |-> FALSE, sess |-> post_completion_session(s1, msg),
              text |-> post_completion_response(s1, msg)]
        ELSE IF ~tmpl /\ s1.history = <<>>
        THEN \* load_stage_prompt raises inside initialize_history
             [calling |-> FALSE, sess |-> s1, text |-> ErrorText]
        ELSE IF ~tmpl
        THEN \* load_stage_prompt raises at line 208, the user turn is appended
             [calling |-> FALSE, sess |-> s3, text |-> ErrorText]
        ELSE [calling |-> TRUE, sess |-> s3, text |-> NoText]

\* line 209: the template and the reminder, which names the language of
\* the message
system_content(msg) ==
    load_stage_prompt_default \o <<"REMINDER", detect_language(msg)>>

\* history[-4:]
LastFour(h) == SubSeq(h, IF Len(h) > 4 THEN Len(h) - 3 ELSE 1, Len(h))

Message(role, content) == [role |-> role, content |-> content]

\* lines 212-232: the message list sent to the provider.  history is the
\* history after line 201 has appended the user message to it.
messages(history, user_message) ==
    LET recent == SelectSeq(LastFour(history),
                            LAMBDA entry : entry.role \in {"user", "assistant"})
    IN  <<Message("system", system_content(user_message))>>
        \o [i \in DOMAIN recent |-> Message(recent[i].role, recent[i].content)]
        \o <<Message("user", user_message)>>

(***************************************************************************)
(* generate_response, from the reply of the model provider on.             *)
(***************************************************************************)
\* lines 247-257: the visible reply
VisibleReply(reply) ==
    LET bot == Strip(reply)
    IN  IF Contains(bot, Marker) THEN Strip(Remove(bot, Marker)) ELSE bot

\* the advance branch entered whatever stage follows
Advances_any(reply, cur) == Contains(Strip(reply), Marker)

\* whether lines 262-264 enter the advance branch at the stage cur
Advances(reply, cur) == Contains(Strip(reply), Marker) /\ STAGES[cur].next # None

\* lines 247-362.  s is the handler's session, cur the stage read at line
\* 182.  In the advance branch store_assessment_data stores the fact, saves
\* the snapshot and returns True; unpacking True into (success_save,
\* filepath) at line 268 raises TypeError, which line 364 turns into the
\* error text.  Lines 269-357 are never reached.
PostCall(s, cur, reply) ==
    LET s1 == add_message_to_history(s, VisibleReply(reply), "assistant")
    IN  IF Advances(reply, cur)
        THEN [sess |-> store_assessment_data(s1, "stage_complete", <<cur>>),
              saves |-> TRUE, text |-> ErrorText]
        ELSE [sess |-> s1, saves |-> FALSE, text |-> VisibleReply(reply)]

(***************************************************************************)
(* Requests.                                                               *)
(***************************************************************************)
\* the turns waiting for the provider, oldest first: entry is the session the
\* handler loaded, sess the handler's session when it calls the provider
InFlight == DOMAIN req

RemoveAt(q, i) == [j \in 1..(Len(q) - 1) |-> IF j < i THEN q[j] ELSE q[j + 1]]

\* what the last handler returned.  provider tells whether the turn called
\* the model provider and how the call ended, reply is the provider's raw
\* reply, key the key handed to store_assessment_data.
Response(kind, text, provider, reply, key) ==
    [kind |-> kind, text |-> text, provider |-> provider, reply |-> reply, key |-> key]

Plain(kind) == Response(kind, NoText, "not called", NoText, None)

\* app_rag.py line 117: conversation_history = {}
NoHistories == [id \in {} |-> <<>>]

\* the time of a key that is not in the session
NoTime == 0 - 1

\* a client of app_rag.py without cookie: Flask hands its handlers an empty
\* session.  stamp is the time Flask signed the cookie at, which is the time
\* of the last response that changed the session.
EmptyCookie ==
    [user_id |-> None, last_activity |-> NoTime, session_id |-> None, stamp |-> NoTime]

\* no request of app_rag.py was served
NoRequest == [route |-> None, password |-> None]

\* the keys of the rule-based assessment in a Flask session where none is
\* set: the keys that a condition of its handlers reads.  has_messages tells
\* whether the key 'messages' is in the session; the entries of that list
\* only feed get_openai_response, whose answer is an input of the model.
\* The keys orientation, personality_type, energy_pattern,
\* reinforcement_pattern and pdn_code are written and read for the text of
\* the reply only.
EmptyAssessment ==
    [has_messages     |-> FALSE,
     assessment_stage |-> None]

\* the request is one of the client that holds `session': it comes with that
\* cookie and is served by app/services, not by app_rag.py
OwnRequest ==
    /\ client' = "a"
    /\ UNCHANGED <<peer, conversation_history, cookie, now, http,
                   assessment, analysis, waiting>>

Init ==
    /\ session = EmptySession
    /\ req = <<>>
    /\ files = <<>>
    /\ turns = 0
    /\ ops = 0
    /\ stores = 0
    /\ resp = Plain("none")
    /\ peer = EmptySession
    /\ conversation_history = NoHistories
    /\ client = None
    /\ cookie = EmptyCookie
    /\ now = 0
    /\ http = NoRequest
    /\ assessment = EmptyAssessment
    /\ analysis = <<>>
    /\ waiting = <<>>

\* generate_response(msg, stage) until it calls the provider or returns
BeginTurn(msg, stage, tmpl) ==
    /\ Len(req) < Cardinality(Slots)
    /\ turns < MaxTurns
    /\ turns' = turns + 1
    /\ LET pre == PreCall(session, msg, stage, tmpl)
       IN  IF pre.calling
           THEN /\ req' = Append(req, [entry |-> session, sess |-> pre.sess,
                                      stage |-> stage])
                /\ UNCHANGED <<session, resp>>
           ELSE /\ session' = pre.sess
                /\ resp' = Response("text", pre.text, "not called", NoText, None)
                /\ UNCHANGED req
    /\ UNCHANGED <<files, ops, stores>>
    /\ OwnRequest

\* FinishTurn that stores the fact only when the snapshot was written
FinishTurnSaveFirst(r, reply, save) ==
    /\ r \in InFlight
    /\ LET post == PostCall(req[r].sess, CurStage(req[r].sess), reply)
       IN  /\ post.saves \/ save = "failed"
           /\ req' = RemoveAt(req, r)
           /\ session' = IF post.saves /\ save = "failed"
                          THEN [post.sess EXCEPT !.facts = req[r].sess.facts]
                          ELSE post.sess
           /\ resp' = Response("text", post.text, "answered", reply, None)
           /\ files' = IF post.saves
                       THEN save_assessment_results(files, post.sess, save)
                       ELSE files
    /\ UNCHANGED <<turns, ops, stores>>
    /\ OwnRequest

\* the provider answers: the rest of generate_response, then the response
\* carries the handler's session back to the client
FinishTurn(r, reply, save) ==
    /\ r \in InFlight
    /\ LET post == PostCall(req[r].sess, CurStage(req[r].sess), reply)
       IN  /\ post.saves \/ save = "failed"    \* nothing is saved otherwise
           /\ req' = RemoveAt(req, r)
           /\ session' = post.sess
           /\ resp' = Response("text", post.text, "answered", reply, None)
           /\ files' = IF post.saves
                       THEN save_assessment_results(files, post.sess, save)
                       ELSE files
    /\ UNCHANGED <<turns, ops, stores>>
    /\ OwnRequest

\* FailTurn with the user turn taken back
FailTurnRollback(r) ==
    /\ r \in InFlight
    /\ req' = RemoveAt(req, r)
    /\ session' = [req[r].sess EXCEPT !.history = req[r].entry.history]
    /\ resp' = Response("text", ErrorText, "failed", NoText, None)
    /\ UNCHANGED <<files, turns, ops, stores>>
    /\ OwnRequest

\* the provider call raises: line 364 returns the error text
FailTurn(r) ==
    /\ r \in InFlight
    /\ req' = RemoveAt(req, r)
    /\ session' = req[r].sess
    /\ resp' = Response("text", ErrorText, "failed", NoText, None)
    /\ UNCHANGED <<files, turns, ops, stores>>
    /\ OwnRequest

\* set_stage(stage); key tells the stage that was asked for
OpSetStage(stage) ==
    /\ session' = set_stage(session, stage)
    /\ resp' = Response(IF set_stage_ok(stage) THEN "stage set" ELSE "invalid stage",
                        NoText, "not called", NoText, stage)
    /\ UNCHANGED <<req, files, turns, stores>>
    /\ OwnRequest

\* set_stage(stage), as one of the MaxOps operations of a behaviour
SetStage(stage) ==
    /\ ops < MaxOps
    /\ ops' = ops + 1
    /\ OpSetStage(stage)

\* store_assessment_data(key, value)
StoreFact(key, value, save) ==
    /\ stores < MaxStores
    /\ stores' = stores + 1
    /\ session' = store_assessment_data(session, key, value)
    /\ files' = save_assessment_results(files, session', save)
    /\ resp' = Response("stored", value, "not called", NoText, key)
    /\ UNCHANGED <<req, turns, ops>>
    /\ OwnRequest

\* get_session_info: get_current_stage of chat_service calls get_session_id
OpGetSessionInfo ==
    /\ session' = get_session_id(session)
    /\ resp' = Plain("info")
    /\ UNCHANGED <<req, files, turns, stores>>
    /\ OwnRequest

GetSessionInfo ==
    /\ ops < MaxOps
    /\ ops' = ops + 1
    /\ OpGetSessionInfo

\* reset_session
OpReset ==
    /\ session' = reset_session(session)
    /\ resp' = Plain("reset")
    /\ UNCHANGED <<req, files, turns, stores>>
    /\ OwnRequest

Reset ==
    /\ ops < MaxOps
    /\ ops' = ops + 1
    /\ OpReset

\* clear_history
OpClearHistory ==
    /\ session' = clear_history(session)
    /\ resp' = Plain("cleared")
    /\ UNCHANGED <<req, files, turns, stores>>
    /\ OwnRequest

\* advance_stage; key tells the stage the call found
OpAdvanceStage ==
    /\ session' = advance_stage(session)
    /\ resp' = Response(IF advance_stage_ok(session) THEN "advanced" ELSE "already final",
                        NoText, "not called", NoText, CurStage(session))
    /\ UNCHANGED <<req, files, turns, stores, ops>>
    /\ OwnRequest

(***************************************************************************)
(* Requests of the second client.  They come with the cookie `peer' and    *)
(* run the same code on it.  A turn of the second client is taken as one   *)
(* step: what the first client sees of it does not depend on where it      *)
(* waits.                                                                  *)
(***************************************************************************)
\* the frame of a request that comes with the cookie `peer'
PeerRequest ==
    /\ client' = "b"
    /\ UNCHANGED <<session, req, ops, conversation_history, cookie, now, http,
                   assessment, analysis, waiting>>

\* set_stage(stage)
PeerSetStage(stage) ==
    /\ peer' = set_stage(peer, stage)
    /\ resp' = Response(IF set_stage_ok(stage) THEN "stage set" ELSE "invalid stage",
                        NoText, "not called", NoText, stage)
    /\ UNCHANGED <<files, turns, stores>>
    /\ PeerRequest

\* store_assessment_data(key, value)
PeerStoreFact(key, value, save) ==
    /\ stores < MaxStores
    /\ stores' = stores + 1
    /\ peer' = store_assessment_data(peer, key, value)
    /\ files' = save_assessment_results(files, peer', save)
    /\ resp' = Response("stored", value, "not called", NoText, key)
    /\ UNCHANGED turns
    /\ PeerRequest

\* reset_session
PeerReset ==
    /\ peer' = reset_session(peer)
    /\ resp' = Plain("reset")
    /\ UNCHANGED <<files, turns, stores>>
    /\ PeerRequest

\* generate_response(msg) with the provider's reply
PeerTurn(msg, reply, save) ==
    /\ turns < MaxTurns
    /\ turns' = turns + 1
    /\ LET pre  == PreCall(peer, msg, None, TRUE)
           post == PostCall(pre.sess, CurStage(pre.sess), reply)
       IN  /\ pre.calling
           /\ post.saves \/ save = "failed"
           /\ peer' = post.sess
           /\ resp' = Response("text", post.text, "answered", reply, None)
           /\ files' = IF post.saves
                       THEN save_assessment_results(files, post.sess, save)
                       ELSE files
    /\ UNCHANGED stores
    /\ PeerRequest

(***************************************************************************)
(* app_rag.py: the histories live in one dictionary of the process, keyed  *)
(* by the session id of the cookie.                                        *)
(***************************************************************************)
\* the session ids get_session_id of app_rag.py has handed out: os.urandom
\* gives every cookie its own
RagIds == {"r1", "r2"}

SYSTEM_PROMPT == <<"SYSTEM_PROMPT">>

RagErrorText == <<"SORRY">>

Turn(role, content) == [role |-> role, content |-> content]

\* generate_response of app_rag.py with one history for every session id
rag_one_history(h, session_id, msg, reply, ok) ==
    LET h1 == IF "r1" \in DOMAIN h THEN h
              ELSE [id \in DOMAIN h \cup {"r1"} |->
                       IF id = "r1" THEN <<Turn("system", SYSTEM_PROMPT)>>
                       ELSE h[id]]
        h2 == [h1 EXCEPT !["r1"] = Append(@, Turn("user", msg))]
    IN  IF ok
        THEN [h2 EXCEPT !["r1"] = Append(@, Turn("assistant", Strip(reply)))]
        ELSE h2

\* generate_response of app_rag.py: the dictionary after the call.  ok: the
\* provider answered with reply
rag_generate_response(h, session_id, msg, reply, ok) ==
    LET h1 == IF session_id \in DOMAIN h THEN h
              ELSE [id \in DOMAIN h \cup {session_id} |->
                       IF id = session_id THEN <<Turn("system", SYSTEM_PROMPT)>>
                       ELSE h[id]]
        h2 == [h1 EXCEPT ![session_id] = Append(@, Turn("user", msg))]
    IN  IF ok
        THEN [h2 EXCEPT ![session_id] = Append(@, Turn("assistant", Strip(reply)))]
        ELSE h2

\* generate_response(msg) of app_rag.py for the cookie with session id `id';
\* when the provider call raises, the reply is an apology
RagTurn(id, msg, reply, ok) ==
    /\ turns < MaxTurns
    /\ turns' = turns + 1
    /\ conversation_history' =
          rag_generate_response(conversation_history, id, msg, reply, ok)
    /\ resp' = Response("text", IF ok THEN Strip(reply) ELSE RagErrorText,
                        IF ok THEN "answered" ELSE "failed", reply, None)
    /\ client' = id
    /\ UNCHANGED <<session, req, peer, files, ops, stores, cookie, now, http,
                   assessment, analysis, waiting>>

(***************************************************************************)
(* routes/chat.py: the rule-based assessment.  start_assessment and         *)
(* reset_assessment are one step; send_message is one step unless it calls  *)
(* get_openai_response, and then it waits in `analysis' with the session it *)
(* has loaded and returns in a second step.  `assessment' is the session    *)
(* the last response has left with the client.                              *)
(***************************************************************************)
\* str.lower() and str.upper() on the letters of the texts below
lower_char(c) ==
    CASE c = "A" -> "a" [] c = "P" -> "p" [] c = "E" -> "e" [] c = "T" -> "t"
      [] c = "D" -> "d" [] c = "S" -> "s" [] c = "F" -> "f" [] c = "N" -> "n"
      [] c = "C" -> "c" [] c = "I" -> "i" [] c = "Y" -> "y" [] OTHER -> c

upper_char(c) ==
    CASE c = "a" -> "A" [] c = "p" -> "P" [] c = "e" -> "E" [] c = "t" -> "T"
      [] c = "d" -> "D" [] c = "s" -> "S" [] c = "f" -> "F" [] c = "n" -> "N"
      [] c = "c" -> "C" [] c = "i" -> "I" [] c = "y" -> "Y" [] OTHER -> c

lower(text) == [i \in DOMAIN text |-> lower_char(text[i])]

\* line 302: ['yes', 'begin', 'start', 'ready']
BeginWords ==
    {<<"y", "e", "s">>, <<"b", "e", "g", "i", "n">>,
     <<"s", "t", "a", "r", "t">>, <<"r", "e", "a", "d", "y">>}

\* line 311: 'ap', 'analytical', 'peaceful'
ApWords ==
    {<<"a", "p">>, <<"a", "n", "a", "l", "y", "t", "i", "c", "a", "l">>,
     <<"p", "e", "a", "c", "e", "f", "u", "l">>}

\* line 316: 'et', 'expressive', 'tactical'
EtWords ==
    {<<"e", "t">>, <<"e", "x", "p", "r", "e", "s", "s", "i", "v", "e">>,
     <<"t", "a", "c", "t", "i", "c", "a", "l">>}

\* line 342: ['analytical', 'expressive', 'tactical', 'peaceful']
PersonalityTypes ==
    <<<<"a", "n", "a", "l", "y", "t", "i", "c", "a", "l">>,
      <<"e", "x", "p", "r", "e", "s", "s", "i", "v", "e">>,
      <<"t", "a", "c", "t", "i", "c", "a", "l">>,
      <<"p", "e", "a", "c", "e", "f", "u", "l">>>>

\* line 375: ['dominant', 'steady', 'flexible']
EnergyPatterns ==
    <<<<"d", "o", "m", "i", "n", "a", "n", "t">>,
      <<"s", "t", "e", "a", "d", "y">>,
      <<"f", "l", "e", "x", "i", "b", "l", "e">>>>

\* line 408: ['nurturing', 'challenging', 'inspiring']
ReinforcementPatterns ==
    <<<<"n", "u", "r", "t", "u", "r", "i", "n", "g">>,
      <<"c", "h", "a", "l", "l", "e", "n", "g", "i", "n", "g">>,
      <<"i", "n", "s", "p", "i", "r", "i", "n", "g">>>>

\* any(word in text for word in words)
AnyIn(words, text) == \E w \in words : Contains(text, w)

\* the loops of lines 342-345, 375-378 and 408-411: the capital initial of
\* the first word whose initial or which itself is in the lowered message
Indicated(words, message) ==
    LET low == lower(message)
        hit == {i \in DOMAIN words :
                   Contains(low, <<words[i][1]>>) \/ Contains(low, words[i])}
    IN  IF hit = {} THEN None
        ELSE upper_char(words[CHOOSE i \in hit : \A j \in hit : i <= j][1])

\* the loops of lines 360-363, 393-396 and 435-438: the first of the letters
\* that is in the analysis
Analysed(letters, ai) ==
    LET hit == {i \in DOMAIN letters : Contains(ai, <<letters[i]>>)}
    IN  IF hit = {} THEN None
        ELSE letters[CHOOSE i \in hit : \A j \in hit : i <= j]

\* openai_service.py line 32: what get_openai_response returns when the call
\* has failed, cut to its first words and its last sentence
APOLOGY ==
    <<"I", "'", "m", " ", "s", "o", "r", "r", "y", ".", " ",
      "P", "l", "e", "a", "s", "e", " ", "t", "r", "y", " ", "a", "g", "a", "i", "n", ".">>

\* lines 290-294: a session without 'messages' gets the list and the first
\* stage, then the user message is appended
receive(s) ==
    IF s.has_messages THEN s
    ELSE [s EXCEPT !.has_messages = TRUE, !.assessment_stage = "introduction"]

\* line 297: session.get('assessment_stage', 'introduction')
current_stage(s) ==
    IF s.assessment_stage = None THEN "introduction" ELSE s.assessment_stage

\* whether the branch of the stage calls get_openai_response for the message
calls_openai(s, message) ==
    LET low == lower(message)
        cur == current_stage(s)
    IN  \/ cur = "ap_et_distinction" /\ ~AnyIn(ApWords, low) /\ ~AnyIn(EtWords, low)
        \/ cur = "personality_type" /\ Indicated(PersonalityTypes, message) = None
        \/ cur = "energy_pattern" /\ Indicated(EnergyPatterns, message) = None
        \/ cur = "reinforcement_pattern"
              /\ Indicated(ReinforcementPatterns, message) = None
        \/ cur = "complete"

\* lines 464-470: the reply is appended and returned
replied(s) == [raised |-> FALSE, sess |-> s]

\* read_prompt_file has raised: the handler ends with what it has written to
\* the session so far
raised(s) == [raised |-> TRUE, sess |-> s]

\* send_message that takes every stage to personality_type
respond_skip(s, message, ai, found) ==
    replied([s EXCEPT !.assessment_stage = "personality_type"])

\* lines 296-470 on the session s that holds the user message.  ai is what
\* get_openai_response has returned where the branch calls it, found
\* whether the prompt file the branch reads is there.
respond(s, message, ai, found) ==
    LET low == lower(message)
        cur == current_stage(s)
    IN  CASE cur = "introduction" ->
                IF AnyIn(BeginWords, low)
                THEN IF found
                     THEN replied([s EXCEPT !.assessment_stage = "ap_et_distinction"])
                     ELSE raised(s)
                ELSE replied(s)
          [] cur = "ap_et_distinction" ->
                \* each of the four branches reads the prompt file, then
                \* sets the stage and the orientation
                IF found
                THEN replied([s EXCEPT !.assessment_stage = "personality_type"])
                ELSE raised(s)
          [] cur = "personality_type" ->
                LET said == Indicated(PersonalityTypes, message)
                    personality_type ==
                        IF said # None THEN said
                        ELSE Analysed(<<"A", "E", "T", "P">>, ai)
                IN  IF personality_type = None THEN replied(s)
                    ELSE IF found
                    THEN replied([s EXCEPT !.assessment_stage = "energy_pattern"])
                    ELSE raised(s)
          [] cur = "energy_pattern" ->
                LET said == Indicated(EnergyPatterns, message)
                    energy_pattern ==
                        IF said # None THEN said
                        ELSE Analysed(<<"D", "S", "F">>, ai)
                IN  IF energy_pattern = None THEN replied(s)
                    ELSE IF found
                    THEN replied([s EXCEPT !.assessment_stage = "reinforcement_pattern"])
                    ELSE raised(s)
          [] cur = "reinforcement_pattern" ->
                LET said == Indicated(ReinforcementPatterns, message)
                    reinforcement_pattern ==
                        IF said # None THEN said
                        ELSE Analysed(<<"N", "C", "I">>, ai)
                IN  IF reinforcement_pattern = None THEN replied(s)
                    ELSE replied([s EXCEPT !.assessment_stage = "complete"])
          [] cur = "complete" -> replied(s)
          [] OTHER -> replied(s)

\* a request of the assessment routes
AssessmentRequest ==
    /\ client' = "a"
    /\ UNCHANGED <<session, req, files, turns, ops, stores, peer,
                   conversation_history, cookie, now, http, waiting>>

\* the handler has returned or raised.  Flask signs the session the handler
\* leaves into the cookie of the response, of the 500 response too; where
\* exceptions propagate (debug, testing) a handler that raises sends no
\* response and the client keeps its cookie.
Returned(out, propagate, route, provider, ai) ==
    /\ assessment' = IF out.raised /\ propagate THEN assessment ELSE out.sess
    /\ resp' = Response(IF ~out.raised THEN "assessment"
                        ELSE IF propagate THEN "exception" ELSE "server error",
                        NoText, provider, ai, route)

\* POST /start_assessment, lines 255-278
start_assessment(found, propagate) ==
    /\ LET s == [assessment EXCEPT !.has_messages = TRUE,
                                   !.assessment_stage = "introduction"]
       IN  Returned(IF found THEN replied(s) ELSE raised(s), propagate,
                    "/start_assessment", "not called", NoText)
    /\ UNCHANGED analysis
    /\ AssessmentRequest

\* POST /reset, lines 516-520
reset_assessment ==
    /\ assessment' = EmptyAssessment
    /\ resp' = Response("assessment reset", NoText, "not called", NoText, "/reset")
    /\ UNCHANGED analysis
    /\ AssessmentRequest

\* POST /send_message until it returns or calls get_openai_response
send_message(message, found, propagate) ==
    /\ IF message = NoText
       THEN /\ resp' = Response("bad request", NoText, "not called", NoText,
                                "/send_message")
            /\ UNCHANGED <<assessment, analysis, waiting>>
       ELSE LET s == receive(assessment)
            IN  IF calls_openai(s, message)
                THEN /\ Len(analysis) < Cardinality(Slots)
                     /\ analysis' = Append(analysis, [entry |-> assessment, sess |-> s,
                                                      message |-> message])
                     /\ UNCHANGED <<assessment, resp>>
                ELSE /\ Returned(respond(s, message, NoText, found), propagate,
                                 "/send_message", "not called", NoText)
                     /\ UNCHANGED analysis
    /\ AssessmentRequest

\* what get_openai_response can return: an analysis that names AP, one that
\* names D, one that names N, one that names nothing, and the apology
Analyses == {<<"A", "P">>, <<"D">>, <<"N">>, <<"?">>, APOLOGY}

\* get_openai_response has returned to the r-th waiting send_message
analysis_returns(r, ai, found, propagate) ==
    /\ r \in DOMAIN analysis
    /\ Returned(respond(analysis[r].sess, analysis[r].message, ai, found), propagate,
                "/send_message", IF ai = APOLOGY THEN "failed" ELSE "answered", ai)
    /\ analysis' = RemoveAt(analysis, r)
    /\ AssessmentRequest

\* the messages of the client: none, "Yes", "hm", "AP", "in"
UserMessages ==
    {NoText, <<"Y", "e", "s">>, <<"h", "m">>, <<"A", "P">>, <<"i", "n">>}

NextAssessment ==
    \/ \E found \in BOOLEAN, propagate \in BOOLEAN : start_assessment(found, propagate)
    \/ reset_assessment
    \/ \E message \in UserMessages, found \in BOOLEAN, propagate \in BOOLEAN :
          send_message(message, found, propagate)
    \/ \E r \in Slots, ai \in Analyses, found \in BOOLEAN, propagate \in BOOLEAN :
          analysis_returns(r, ai, found, propagate)

SpecAssessment == Init /\ [][NextAssessment]_vars

(***************************************************************************)
(* app_rag.py: generate_response in the two steps the threads of the        *)
(* server can interleave, up to the call of the provider and from its       *)
(* return.  `waiting' holds the handlers that wait for the provider: the    *)
(* session id, and whether get_session_id has made it for this request.     *)
(***************************************************************************)
\* lines 132-139: the history of the session id gets the system prompt when
\* it is new, and the user message
rag_receive(h, session_id, msg) ==
    LET h1 == IF session_id \in DOMAIN h THEN h
              ELSE [id \in DOMAIN h \cup {session_id} |->
                       IF id = session_id THEN <<Turn("system", SYSTEM_PROMPT)>>
                       ELSE h[id]]
    IN  [h1 EXCEPT ![session_id] = Append(@, Turn("user", msg))]

\* lines 144-153: the reply is appended when the provider has answered
rag_reply(h, session_id, reply, ok) ==
    IF ok THEN [h EXCEPT ![session_id] = Append(@, Turn("assistant", Strip(reply)))]
    ELSE h

\* a client has the session id in its cookie from the response to the
\* request that made the id
RagCall(id, msg) ==
    /\ turns < MaxRagTurns
    /\ turns' = turns + 1
    /\ \A r \in DOMAIN waiting : ~(waiting[r].id = id /\ waiting[r].new)
    /\ conversation_history' = rag_receive(conversation_history, id, msg)
    /\ waiting' = Append(waiting, [id  |-> id,
                                   new |-> id \notin DOMAIN conversation_history])
    /\ client' = id
    /\ UNCHANGED <<session, req, peer, files, ops, stores, cookie, now, http,
                   assessment, analysis, resp>>

RagReturn(r, reply, ok) ==
    /\ r \in DOMAIN waiting
    /\ conversation_history' = rag_reply(conversation_history, waiting[r].id, reply, ok)
    /\ waiting' = RemoveAt(waiting, r)
    /\ resp' = Response("text", IF ok THEN Strip(reply) ELSE RagErrorText,
                        IF ok THEN "answered" ELSE "failed", reply, None)
    /\ client' = waiting[r].id
    /\ UNCHANGED <<session, req, peer, files, ops, stores, cookie, now, http,
                   assessment, analysis, turns>>

NextRagCalls ==
    \/ \E id \in RagIds, msg \in Msgs : RagCall(id, msg)
    \/ \E r \in 1..MaxRagTurns, reply \in {RPlain, RAdvance}, ok \in BOOLEAN :
          RagReturn(r, reply, ok)

SpecRagCalls == Init /\ [][NextRagCalls]_vars

(***************************************************************************)
(* app_rag.py: login, logout, session expiry and the chat route.  A request *)
(* is one step: Flask runs before_request, then the view unless             *)
(* before_request has answered, then signs the session into the cookie.     *)
(***************************************************************************)
\* app.config['PERMANENT_SESSION_LIFETIME'], in steps of the clock
PERMANENT_SESSION_LIFETIME == 2

\* os.getenv("USER_PASSWORD")
USER_PASSWORD == "right"

\* request.form.get("password"): None when the form has no such field
Passwords == {"right", "wrong", None}

\* request.form.get("username")
Usernames == {"u"}

\* Flask signs the session into the cookie at time t
Signed(c, t) == [c EXCEPT !.stamp = t]

\* Flask's open_session: a cookie signed more than the lifetime ago loads as
\* an empty session
open_session(c, t) ==
    IF c.stamp # NoTime /\ t - c.stamp > PERMANENT_SESSION_LIFETIME
    THEN EmptyCookie ELSE c

\* Flask's save_session at time t, the end of the request: c0 is the session
\* that was loaded, c1 the session the handlers leave.  A session with
\* user_id was changed by before_request.
save_session(c0, c1, t) ==
    IF c1 = EmptyCookie THEN EmptyCookie
    ELSE IF c1.user_id # None \/ c1 # c0 THEN Signed(c1, t)
    ELSE c1

\* before_request at time t: the session it leaves, and whether it has
\* answered with the redirect to the login page
before_request(c, t) ==
    IF c.user_id = None
    THEN [sess |-> c, redirect |-> FALSE]
    ELSE IF c.last_activity # NoTime /\ t - c.last_activity > PERMANENT_SESSION_LIFETIME
    THEN [sess |-> EmptyCookie, redirect |-> TRUE]
    ELSE [sess |-> [c EXCEPT !.last_activity = t], redirect |-> FALSE]

\* login that takes every password
login_any(c, username, password) ==
    [sess |-> [c EXCEPT !.user_id = username], kind |-> "redirect to index"]

\* login, POST: the session it leaves and what it answers
login(c, username, password) ==
    IF password = None
    THEN \* "password " + password raises TypeError
         [sess |-> c, kind |-> "error 500"]
    ELSE IF password = USER_PASSWORD
    THEN [sess |-> [c EXCEPT !.user_id = username], kind |-> "redirect to index"]
    ELSE [sess |-> c, kind |-> "login page"]

\* check_session at time t: the session it leaves and the status it answers
check_session(c, t) ==
    IF c.user_id # None /\ c.last_activity # NoTime
    THEN IF t - c.last_activity > PERMANENT_SESSION_LIFETIME
         THEN [sess |-> EmptyCookie, status |-> "expired"]
         ELSE [sess |-> c, status |-> "active"]
    ELSE [sess |-> c, status |-> "expired"]

\* the frame of a request to app_rag.py
RagRequest(route, password) ==
    /\ http' = [route |-> route, password |-> password]
    /\ UNCHANGED <<session, req, peer, files, ops, stores, assessment, analysis, waiting>>

\* the frame of a request that is served at once and is no chat
AtOnce ==
    /\ client' = "c"
    /\ UNCHANGED <<conversation_history, turns, now>>

\* the answer of before_request when it has found the session expired
Expired(pre) ==
    /\ pre.redirect
    /\ cookie' = pre.sess
    /\ resp' = Plain("redirect to login")

\* POST /login
RagLogin(username, password) ==
    /\ LET c0  == open_session(cookie, now)
           pre == before_request(c0, now)
           out == login(pre.sess, username, password)
       IN  \/ Expired(pre)
           \/ /\ ~pre.redirect
              /\ cookie' = save_session(c0, out.sess, now)
              /\ resp' = Plain(out.kind)
    /\ AtOnce
    /\ RagRequest("/login", password)

\* GET /logout: session.clear()
RagLogout ==
    /\ cookie' = EmptyCookie
    /\ resp' = Plain("redirect to login")
    /\ AtOnce
    /\ RagRequest("/logout", None)

\* GET /, behind login_required
RagIndex ==
    /\ LET c0  == open_session(cookie, now)
           pre == before_request(c0, now)
       IN  \/ Expired(pre)
           \/ /\ ~pre.redirect
              /\ cookie' = save_session(c0, pre.sess, now)
              /\ resp' = Plain(IF pre.sess.user_id = None
                               THEN "redirect to login" ELSE "page")
    /\ AtOnce
    /\ RagRequest("/", None)

\* GET /check_session
RagCheckSession ==
    /\ LET c0  == open_session(cookie, now)
           pre == before_request(c0, now)
           out == check_session(pre.sess, now)
       IN  \/ Expired(pre)
           \/ /\ ~pre.redirect
              /\ cookie' = save_session(c0, out.sess, now)
              /\ resp' = Plain(out.status)
    /\ AtOnce
    /\ RagRequest("/check_session", None)

\* the text handle_input uses for an empty message
DefaultPrompt == <<"PLEASE_ANALYZE">>

\* request.files.get("file"): no file, a text file, a file whose extension
\* extract_text_from_file does not know and raises ValueError for
Uploads == {"none", "txt", "exe"}

Supported(file) == file \in {"none", "txt"}

file_content(file) == IF file = "txt" THEN <<"FILE_TEXT">> ELSE NoText

\* lines 298-300 of handle_input
combined_prompt(msg, file) ==
    (IF Strip(msg) = NoText THEN DefaultPrompt ELSE Strip(msg))
    \o <<"NL">> \o file_content(file) \o <<"NL">>

\* the steps of the clock a call of the provider can take
Waits == {0, 1}

\* POST /api/chat_upload: handle_input, which no decorator guards.  The
\* session gets its session_id from os.urandom when it has none.  The
\* provider answers after wait steps of the clock.
RagChatUpload(id, msg, file, reply, ok, wait) ==
    /\ turns < MaxTurns
    /\ turns' = turns + 1
    /\ LET c0  == open_session(cookie, now)
           pre == before_request(c0, now)
       IN  \/ /\ Expired(pre)
              /\ wait = 0
              /\ client' = "c"
              /\ UNCHANGED <<conversation_history, now>>
           \/ /\ ~pre.redirect
              /\ ~Supported(file)
              /\ wait = 0
              /\ cookie' = save_session(c0, pre.sess, now)
              /\ resp' = Plain("error 500")
              /\ client' = "c"
              /\ UNCHANGED <<conversation_history, now>>
           \/ /\ ~pre.redirect
              /\ Supported(file)
              /\ now + wait <= MaxTime
              /\ now' = now + wait
              /\ IF pre.sess.session_id = None
                 THEN id \notin DOMAIN conversation_history
                 ELSE id = pre.sess.session_id
              /\ cookie' = save_session(c0, [pre.sess EXCEPT !.session_id = id], now')
              /\ conversation_history' =
                    rag_generate_response(conversation_history, id,
                                          combined_prompt(msg, file), reply, ok)
              /\ resp' = Response("text", IF ok THEN Strip(reply) ELSE RagErrorText,
                                  IF ok THEN "answered" ELSE "failed", reply, None)
              /\ client' = id
    /\ RagRequest("/api/chat_upload", None)

\* time passes
Tick ==
    /\ now < MaxTime
    /\ now' = now + 1
    /\ http' = NoRequest
    /\ UNCHANGED <<session, req, files, turns, ops, stores, resp,
                   peer, conversation_history, client, cookie,
                   assessment, analysis, waiting>>

Next ==
    \/ \E msg \in Msgs, tmpl \in BOOLEAN : BeginTurn(msg, None, tmpl)
    \/ \E r \in Slots, reply \in Replies, save \in SaveOutcomes : FinishTurn(r, reply, save)
    \/ \E r \in Slots : FailTurn(r)
    \/ \E stage \in StageIds \cup {"bogus"} : SetStage(stage)
    \/ GetSessionInfo
    \/ Reset

Spec == Init /\ [][Next]_vars

(***************************************************************************)
(* The fact store on its own: store_assessment_data applied to a session.  *)
(***************************************************************************)
NextStore ==
    \E key \in FactKeys, value \in FactValues, save \in SaveOutcomes :
        StoreFact(key, value, save)

SpecStore == Init /\ [][NextStore]_vars

(***************************************************************************)
(* The session operations in any number and order, around turns that find  *)
(* their prompt file and get a reply that asks to advance.                 *)
(***************************************************************************)
SessionStages == {"energy", "final", "bogus"}

NextSession ==
    \/ BeginTurn(MsgEn, None, TRUE)
    \/ \E r \in Slots, save \in SaveOutcomes : FinishTurn(r, RAdvance, save)
    \/ \E stage \in SessionStages : OpSetStage(stage) /\ UNCHANGED ops
    \/ OpGetSessionInfo /\ UNCHANGED ops
    \/ OpReset /\ UNCHANGED ops
    \/ OpClearHistory /\ UNCHANGED ops

SpecSession == Init /\ [][NextSession]_vars

(***************************************************************************)
(* Two sessions that store facts, each under a key of its own: the first   *)
(* one k1, the second one k2.                                              *)
(***************************************************************************)
NextSaves ==
    \/ \E value \in FactValues, save \in SaveOutcomes : StoreFact("k1", value, save)
    \/ \E value \in FactValues, save \in SaveOutcomes : PeerStoreFact("k2", value, save)

SpecSaves == Init /\ [][NextSaves]_vars

(***************************************************************************)
(* One session that stores facts and is reset in between.                  *)
(***************************************************************************)
NextResets ==
    \/ \E key \in FactKeys, value \in FactValues, save \in SaveOutcomes :
          StoreFact(key, value, save)
    \/ OpReset /\ UNCHANGED ops

SpecResets == Init /\ [][NextResets]_vars

(***************************************************************************)
(* Turns with the command words and with a stage override.                 *)
(***************************************************************************)
Overrides == {None, "energy", "bogus"}

NextCommands ==
    \/ \E msg \in CommandMsgs \cup {MsgEn}, stage \in Overrides :
          BeginTurn(msg, stage, TRUE)
    \/ \E r \in Slots, reply \in {RPlain, RAdvance}, save \in SaveOutcomes :
          FinishTurn(r, reply, save)
    \/ \E stage \in {"reinforcement", "final"} : SetStage(stage)
    \/ GetSessionInfo

SpecCommands == Init /\ [][NextCommands]_vars

(***************************************************************************)
(* Two clients of app/services and two of app_rag.py, their requests in    *)
(* any order.                                                              *)
(***************************************************************************)
ClientStages == {"energy"}

NextClients ==
    \/ BeginTurn(MsgEn, None, TRUE)
    \/ \E r \in Slots : FinishTurn(r, RAdvance, "later second")
    \/ \E stage \in ClientStages : SetStage(stage)
    \/ Reset
    \/ PeerTurn(MsgHe, RAdvance, "failed")
    \/ \E stage \in ClientStages : PeerSetStage(stage)
    \/ PeerStoreFact("k2", <<"v2">>, "same second")
    \/ PeerReset
    \/ \E id \in RagIds, ok \in BOOLEAN : RagTurn(id, MsgEn, RPlain, ok)

SpecClients == Init /\ [][NextClients]_vars

(***************************************************************************)
(* The registry walked by advance_stage, from a fresh session or from the   *)
(* session a turn or a reset has left.                                      *)
(***************************************************************************)
NextRegistry ==
    \/ OpAdvanceStage
    \/ OpReset /\ UNCHANGED ops
    \/ \E msg \in Msgs : BeginTurn(msg, None, TRUE)
    \/ \E r \in Slots : FinishTurn(r, RPlain, "failed")

SpecRegistry == Init /\ [][NextRegistry]_vars

(***************************************************************************)
(* Turns of one client, one after the other, with messages of every share  *)
(* of Hebrew letters.                                                      *)
(***************************************************************************)
NextDetect ==
    \/ \E msg \in DetectTexts : req = <<>> /\ BeginTurn(msg, None, TRUE)
    \/ \E r \in Slots : FinishTurn(r, RPlain, "failed")

SpecDetect == Init /\ [][NextDetect]_vars

(***************************************************************************)
(* A client of app_rag.py: its requests in any order, as time passes.       *)
(***************************************************************************)
\* a message alone, a file alone, a message with a file that cannot be read
ChatInputs == {<<MsgEn, "none">>, <<NoText, "txt">>, <<MsgEn, "exe">>}

NextAuth ==
    \/ \E username \in Usernames, password \in Passwords : RagLogin(username, password)
    \/ RagLogout
    \/ RagIndex
    \/ RagCheckSession
    \/ \E id \in RagIds, in \in ChatInputs, ok \in BOOLEAN, wait \in Waits :
          RagChatUpload(id, in[1], in[2], RPlain, ok, wait)
    \/ Tick

SpecAuth == Init /\ [][NextAuth]_vars

(***************************************************************************)
(* Turns at the first and at the last stage whose replies hold the marker   *)
(* in several ways.                                                         *)
(***************************************************************************)
NextMarker ==
    \/ BeginTurn(MsgEn, None, TRUE)
    \/ \E r \in Slots, reply \in MarkerReplies, save \in SaveOutcomes :
          FinishTurn(r, reply, save)
    \/ \E r \in Slots : FailTurn(r)
    \/ OpSetStage("final") /\ UNCHANGED ops

SpecMarker == Init /\ [][NextMarker]_vars

(***************************************************************************)
(* Properties.                                                             *)
(***************************************************************************)
\* the r-th waiting turn sends its response in this step
Responds(r) == r \in InFlight /\ req' = RemoveAt(req, r)

\* a turn starts waiting for the provider in this step
Calls == Len(req') = Len(req) + 1

\* the r-th waiting turn got the provider's reply in this step
Answered(r) == Responds(r) /\ resp'.provider = "answered"

Last(h) == h[Len(h)]

\* C1: every change of current_stage_id goes from a stage to its registry
\* successor, unless the step is a reset.
C1_StageOnlyAdvances ==
    [][CurStage(session') # CurStage(session) =>
          \/ resp'.kind = "reset"
          \/ CurStage(session') = STAGES[CurStage(session)].next]_vars

\* C2: a turn handled at a stage s whose successor n is not the terminal
\* stage, with ADVANCE_STAGE in the reply, ends at stage n with a "stage
\* complete" fact for s in a persisted snapshot.
C2_AdvanceReachesSuccessor ==
    [][\A r \in Slots :
          LET s == CurStage(req[r].sess)
              n == STAGES[s].next
          IN  (Answered(r) /\ Contains(resp'.reply, Marker) /\ n \notin {None, "final"})
              => /\ CurStage(session') = n
                 /\ \E i \in DOMAIN files' :
                       /\ "stage_complete" \in DOMAIN files'[i].assessment_data
                       /\ files'[i].assessment_data["stage_complete"] = <<s>>]_vars

\* C3: a turn handled at the stage before the terminal stage, with
\* ADVANCE_STAGE in the reply, ends completed, with the final report stored
\* as a fact, and returns a redirect.
C3_AdvanceToFinalCompletes ==
    [][\A r \in Slots :
          (Answered(r) /\ Contains(resp'.reply, Marker)
              /\ STAGES[CurStage(req[r].sess)].next = "final")
          => /\ session'.completed
             /\ "final_report" \in DOMAIN session'.facts
             /\ resp'.kind = "redirect"]_vars

\* C5: current_stage_id is always a stage of the registry, in the session
\* and in every handler's copy of it, and completed implies the terminal
\* stage.
C5_StageValid ==
    /\ CurStage(session) \in StageIds
    /\ session.completed => CurStage(session) = "final"
    /\ \A r \in InFlight :
          /\ CurStage(req[r].sess) \in StageIds
          /\ req[r].sess.completed => CurStage(req[r].sess) = "final"

W_C5_InvalidStageRejected == resp.kind = "invalid stage"

\* concurrent turns have appended to the history since the r-th waiting turn
\* loaded it (only turns append)
AppendedMeanwhile(r) ==
    /\ IsPrefix(req[r].entry.history, session.history)
    /\ session.history # req[r].entry.history

\* C6: when a turn responds after a concurrent turn of the same session has
\* responded, the turns the concurrent turn appended are kept: the history
\* it left is a prefix of the history after the response.
C6_ConcurrentTurnsKeepHistory ==
    [][\A r \in Slots :
          (Responds(r) /\ AppendedMeanwhile(r))
          => IsPrefix(session.history, session'.history)]_vars

\* C7: a turn whose provider call fails returns the fallback text, leaves
\* current_stage_id as the handler found it, appends no assistant turn and
\* keeps the user turn it appended before the call.
C7_ProviderFailure ==
    [][\A r \in Slots :
          (Responds(r) /\ resp'.provider = "failed")
          => LET e == req[r].entry.history
                 h == session'.history
             IN  /\ resp'.kind = "text" /\ resp'.text = ErrorText
                 /\ CurStage(session') = CurStage(req[r].entry)
                 /\ IsPrefix(e, h)
                 /\ \A i \in (Len(e) + 1)..Len(h) : h[i].role # "assistant"
                 /\ h # <<>> /\ Last(h).role = "user"
                 /\ Last(h) = Last(req[r].sess.history)]_vars

W_C7_ProviderFailed ==
    /\ resp.provider = "failed"
    /\ session.history # <<>>
    /\ Last(session.history).role = "user"

\* the position of the first c in s, 0 when there is none
FirstIndex(s, c) ==
    IF \E i \in 1..Len(s) : s[i] = c
    THEN CHOOSE i \in 1..Len(s) : s[i] = c /\ \A j \in 1..(i - 1) : s[j] # c
    ELSE 0

RECURSIVE SplitLines(_)
SplitLines(s) ==
    LET i == FirstIndex(s, "NL")
    IN  IF i = 0 THEN <<s>>
        ELSE <<SubSeq(s, 1, i - 1)>> \o SplitLines(SubSeq(s, i + 1, Len(s)))

\* a line STORE_DATA:key=value whose key is one symbol
IsStoreLine(line) == Len(line) >= 3 /\ line[1] = "STORE_DATA:" /\ line[3] = "="

StoreKey(line) == line[2]

StoreValue(line) == SubSeq(line, 4, Len(line))

\* C8: after a turn, every key of a STORE_DATA: line of the reply is in
\* assessment_facts, with the value of the last line that names it.
C8_StoreDataStored ==
    resp.provider = "answered" =>
        LET lines == SplitLines(resp.reply)
        IN  \A i \in DOMAIN lines :
               IsStoreLine(lines[i]) =>
                  /\ StoreKey(lines[i]) \in DOMAIN session.facts
                  /\ (\A j \in (i + 1)..Len(lines) :
                         ~(IsStoreLine(lines[j]) /\ StoreKey(lines[j]) = StoreKey(lines[i])))
                     => session.facts[StoreKey(lines[i])] = StoreValue(lines[i])

\* C9: store_assessment_data(key, value) leaves value under key, also when
\* the key held another value, and leaves every other key as it was.
C9_StoreFactUpsert ==
    [][resp'.kind = "stored" /\ stores' = stores + 1 =>
          /\ resp'.key \in DOMAIN session'.facts
          /\ session'.facts[resp'.key] = resp'.text
          /\ \A k \in DOMAIN session.facts \ {resp'.key} :
                k \in DOMAIN session'.facts /\ session'.facts[k] = session.facts[k]]_vars

\* k1 was stored and saved as v1, k2 was stored, k1 was stored again as v2
W_C9_StoredTwice ==
    /\ resp.kind = "stored"
    /\ DOMAIN session.facts = {"k1", "k2"}
    /\ session.facts["k1"] = <<"v2">>
    /\ \E i \in DOMAIN files :
          /\ "k1" \in DOMAIN files[i].assessment_data
          /\ files[i].assessment_data["k1"] = <<"v1">>

C12_HistoryAppendOnly ==
    [][resp'.kind # "reset" => IsPrefix(session.history, session'.history)]_vars

\* C16: set_stage with an id that is not in the registry reports failure and
\* leaves the whole session as it was.
C16_InvalidStageRejected ==
    [][(resp'.kind \in {"stage set", "invalid stage"} /\ resp'.key \notin StageIds)
          => /\ resp'.kind = "invalid stage"
             /\ session' = session]_vars

\* an unknown stage was refused on a session that is past the first stage
\* and has a history and facts
W_C16_RejectedOnUsedSession ==
    /\ resp.kind = "invalid stage"
    /\ resp.key = "bogus"
    /\ session.stage = "energy"
    /\ session.history # <<>>
    /\ "stage_complete" \in DOMAIN session.facts

\* C18: get_session_info leaves current_stage_id, history, assessment_facts,
\* language and completed as they were.
C18_SessionInfoReadOnly ==
    [][resp'.kind = "info"
          => /\ CurStage(session') = CurStage(session)
             /\ session'.history = session.history
             /\ session'.facts = session.facts
             /\ session'.language = session.language
             /\ session'.completed = session.completed]_vars

\* C19: after reset the session is at the first stage, with an empty
\* history, no facts and completed false.
C19_ResetIsFresh ==
    resp.kind = "reset" =>
        /\ CurStage(session) = DEFAULT_STAGE
        /\ session.history = <<>>
        /\ session.facts = NoFacts
        /\ ~session.completed

\* the session was reset after a turn at stage energy had stored a fact and
\* saved it
W_C19_ResetAfterUse ==
    /\ resp.kind = "reset"
    /\ \E i \in DOMAIN files :
          /\ files[i].current_stage = "energy"
          /\ "stage_complete" \in DOMAIN files[i].assessment_data

\* C13: when a snapshot of the session has been written, the latest snapshot
\* loaded for the session's id holds the facts that were saved.
C13_SnapshotRoundTrip ==
    [][files' # files =>
          LET loaded == get_saved_assessment_results(files', SessionId(session'))
          IN  /\ loaded # <<>>
              /\ loaded[1].assessment_data = session'.facts]_vars

\* C14: a turn whose reply makes store_assessment_data write a snapshot ends
\* the same whether or not the snapshot is written: the fact is in the
\* session, the assistant turn is appended, and stage and reply are those of
\* the turn whose write succeeds.
C14_SaveFailureAbsorbed ==
    [][\A r \in Slots :
          LET cur == CurStage(req[r].sess)
              ok  == PostCall(req[r].sess, cur, resp'.reply)
          IN  (Answered(r) /\ Advances(resp'.reply, cur))
              => /\ "stage_complete" \in DOMAIN session'.facts
                 /\ session'.facts["stage_complete"] = <<cur>>
                 /\ Len(session'.history) = Len(req[r].sess.history) + 1
                 /\ Last(session'.history).role = "assistant"
                 /\ resp'.kind = "text"
                 /\ CurStage(session') = CurStage(ok.sess)
                 /\ resp'.text = ok.text]_vars

\* a turn stored its fact although no snapshot could be written
W_C14_SaveFailed ==
    /\ resp.provider = "answered"
    /\ Contains(resp.reply, Marker)
    /\ files = <<>>
    /\ "stage_complete" \in DOMAIN session.facts

\* C15: a turn that comes with a stage override naming a registry stage is
\* processed at that stage.
C15_OverrideApplied ==
    [][(Calls /\ Last(req').stage \in StageIds)
          => CurStage(Last(req').sess) = Last(req').stage]_vars

\* a turn starts in this step
TurnStarts == turns' = turns + 1

\* the message of the turn that starts waiting for the provider in this step
CalledWith == Last(Last(req').sess.history).content

\* the turn that completes the assessment has been answered: the reply at the
\* stage before the terminal stage asked to advance (line 268 has stored the
\* fact of that stage)
Finished(s) ==
    /\ "stage_complete" \in DOMAIN s.facts
    /\ s.facts["stage_complete"] = <<"reinforcement">>

\* C11: after the assessment is completed, a turn whose message is "done"
\* does not reach the provider; it returns the redirect sentinel and leaves
\* a session that get_session_info reports as fresh.
C11_DoneResets ==
    [][(TurnStarts /\ Finished(session))
          => /\ Calls => Command(CalledWith) # <<"done">>
             /\ (~Calls /\ resp'.text = RedirectToLogin)
                   => /\ CurStage(get_session_id(session')) = DEFAULT_STAGE
                      /\ get_session_id(session').history = <<>>]_vars

\* C17: after the assessment is completed, a turn whose message is "review"
\* or "save" does not reach the provider; it returns the command's response
\* and leaves stage, history and facts as they were.
C17_ReviewSaveShortCircuit ==
    [][(TurnStarts /\ Finished(session))
          => /\ Calls => Command(CalledWith) \notin {<<"review">>, <<"save">>}
             /\ (~Calls /\ resp'.text \in {<<"REVIEW">>, <<"SAVED">>})
                   => /\ resp'.provider = "not called"
                      /\ CurStage(session') = CurStage(session)
                      /\ session'.history = session.history
                      /\ session'.facts = session.facts]_vars

\* C20: a request of one client leaves the session of every other client as
\* it was: stage, history, facts, language and completed, and the handler's
\* copies of the turns that wait for the provider; a request to app_rag.py
\* leaves the history of every other session id as it was.
C20_SessionsIsolated ==
    [][/\ client' = "a" => peer' = peer
       /\ client' = "b" => session' = session /\ req' = req
       /\ client' \in {"a", "b"} => conversation_history' = conversation_history
       /\ client' \in RagIds => session' = session /\ req' = req /\ peer' = peer
       /\ \A id \in RagIds \ {client'} :
             /\ id \in DOMAIN conversation_history' <=> id \in DOMAIN conversation_history
             /\ id \in DOMAIN conversation_history
                   => conversation_history'[id] = conversation_history[id]]_vars

\* the second client has stored a fact and a session of app_rag.py has a
\* history, while a turn of the first client waits for the provider at stage
\* energy
W_C20_Interleaved ==
    /\ client = "b"
    /\ req # <<>>
    /\ req[1].sess.stage = "energy"
    /\ "k2" \in DOMAIN peer.facts
    /\ peer.stage # "energy"
    /\ "r2" \in DOMAIN conversation_history

\* the stages met by following next from stage s, at most n of them
RECURSIVE Chain(_, _)
Chain(s, n) ==
    IF n = 0 \/ s \notin StageIds THEN <<>>
    ELSE <<s>> \o Chain(STAGES[s].next, n - 1)

\* C21: following next from the first stage visits every stage of the
\* registry exactly once and ends at the only stage whose next is the
\* terminal marker; every other next names a stage of the registry.  The
\* stage of the session is on that chain, and the walk from it ends at the
\* same stage.
C21_RegistryIsChain ==
    LET chain == Chain(DEFAULT_STAGE, Cardinality(StageIds) + 1)
    IN  /\ Len(chain) = Cardinality(StageIds)
        /\ {chain[i] : i \in DOMAIN chain} = StageIds
        /\ STAGES[Last(chain)].next = None
        /\ Cardinality({s \in StageIds : STAGES[s].next = None}) = 1
        /\ \A s \in StageIds : STAGES[s].next # None => STAGES[s].next \in StageIds
        /\ \E i \in DOMAIN chain : chain[i] = CurStage(session)
        /\ Last(Chain(CurStage(session), Cardinality(StageIds))) = Last(chain)

\* advance_stage has walked a used session to the end of the chain and was
\* refused there
W_C21_WalkedToTheEnd ==
    /\ resp.kind = "already final"
    /\ resp.key = "final"
    /\ session.stage = "final"
    /\ session.history # <<>>

\* the message list the turn that starts waiting in this step sends
Sent == messages(Last(req').sess.history, CalledWith)

\* the language the reminder of a system content names
Named(content) == Last(content)

\* the characters of text that are in the Hebrew block
HebrewAt(text) == {i \in DOMAIN text : text[i] \in {"h", "U+0590", "U+05FF"}}

\* C22: the language detected for a message is "he" exactly when five times
\* the number of its characters in the Hebrew block exceeds its length, and
\* "en" otherwise, also for the empty message: the turn names that language
\* to the provider and stores it when the session has none.
C22_DetectThreshold ==
    [][Calls =>
          LET text == CalledWith
              lang == IF 5 * Cardinality(HebrewAt(text)) > Len(text) THEN "he" ELSE "en"
          IN  /\ Named(Sent[1].content) = lang
              /\ session.language = None => Last(req').sess.language = lang]_vars

\* a session has taken a message with one Hebrew letter in five characters
\* for English and one with one in four for Hebrew
W_C22_AtTheThreshold ==
    /\ resp.provider = "answered"
    /\ session.language = "en"
    /\ Len(session.history) = 5
    /\ session.history[2].content = <<"h", "e", "e", "e", "e">>
    /\ session.history[4].content = <<"h", "e", "e", "e">>

\* C23: a chat request, with a message or with a file, in a session that
\* has no user_id does not reach the provider and neither creates nor
\* extends a conversation history.
C23_ChatNeedsLogin ==
    [][(http'.route = "/api/chat_upload" /\ cookie.user_id = None)
          => /\ resp'.provider = "not called"
             /\ conversation_history' = conversation_history]_vars

\* C24: a session gets a user_id only from a login request with the
\* configured password, and loses it at logout and at the first request
\* after its last_activity has become older than the lifetime; a login
\* with another password leaves a session without user_id without it, and
\* the index route redirects a session without user_id to the login page.
C24_UserIdOnlyByLogin ==
    [][/\ (cookie'.user_id # None /\ cookie.user_id = None)
             => http'.route = "/login" /\ http'.password = USER_PASSWORD
       /\ (http'.route = "/login" /\ http'.password # USER_PASSWORD
              /\ cookie.user_id = None)
             => cookie'.user_id = None /\ resp'.kind \in {"login page", "error 500"}
       /\ http'.route = "/logout" => cookie'.user_id = None
       /\ (http'.route # None /\ cookie.last_activity # NoTime
              /\ now - cookie.last_activity > PERMANENT_SESSION_LIFETIME)
             => \/ cookie'.user_id = None
                \/ http'.route = "/login" /\ http'.password = USER_PASSWORD
       /\ (http'.route = "/" /\ cookie.user_id = None)
             => resp'.kind = "redirect to login" /\ cookie'.user_id = None]_vars

\* a session that was logged in, took part in a chat and was logged out is
\* refused with a wrong password
W_C24_WrongPasswordRefused ==
    /\ http.route = "/login"
    /\ http.password = "wrong"
    /\ resp.kind = "login page"
    /\ cookie = EmptyCookie
    /\ conversation_history # NoHistories
    /\ now > PERMANENT_SESSION_LIFETIME

C26_PromptOfCurrentStage ==
    [][Calls =>
          LET s     == Last(req').sess
              stage == CurStage(s)
          IN  /\ Sent[1].role = "system"
              /\ IsPrefix(Prompt(stage), Sent[1].content)
              /\ session.history = <<>>
                    => /\ s.history[1].role = "system"
                       /\ s.history[1].content = Prompt(stage)]_vars

\* the turns of a history that are no system turns
Spoken(h) == SelectSeq(h, LAMBDA entry : entry.role \in {"user", "assistant"})

\* the last k entries of q, all of q when it has fewer
LastK(q, k) == SubSeq(q, IF Len(q) > k THEN Len(q) - k + 1 ELSE 1, Len(q))

\* C27: the message list a turn sends is the system prompt, then the most
\* recent turns before the current user message, at most 4 and in their
\* order, then the current user message, once.
C27_MessageList ==
    [][Calls =>
          LET h     == Last(req').sess.history
              prior == Spoken(SubSeq(h, 1, Len(h) - 1))
          IN  \E k \in 0..4 :
                 Sent = <<Message("system", Sent[1].content)>>
                        \o [i \in DOMAIN LastK(prior, k) |->
                               Message(LastK(prior, k)[i].role, LastK(prior, k)[i].content)]
                        \o <<Message("user", CalledWith)>>]_vars

\* C29: no assistant turn of the history and no text returned to the user
\* holds the marker ADVANCE_STAGE, whatever the provider replied.
C29_NoMarkerVisible ==
    /\ \A i \in DOMAIN session.history :
          session.history[i].role = "assistant"
             => ~Contains(session.history[i].content, Marker)
    /\ ~Contains(resp.text, Marker)

\* C30: a turn that advances to a stage n other than the terminal stage
\* appends the marker-stripped reply, a system turn for n tagged n and the
\* first question of n as an assistant turn, in this order, and returns the
\* reply followed by the first question.
C30_AdvanceAppendsKickoff ==
    [][\A r \in Slots :
          LET h  == req[r].sess.history
              h1 == session'.history
              n  == STAGES[CurStage(req[r].sess)].next
              k  == Len(h)
          IN  (Answered(r) /\ Contains(resp'.reply, Marker) /\ n \notin {None, "final"})
              => /\ Len(h1) = k + 3
                 /\ SubSeq(h1, 1, k) = h
                 /\ h1[k + 1].role = "assistant"
                 /\ h1[k + 1].content = VisibleReply(resp'.reply)
                 /\ h1[k + 2].role = "system"
                 /\ h1[k + 2].stage = n
                 /\ h1[k + 2].content = Prompt(n)
                 /\ h1[k + 3].role = "assistant"
                 /\ resp'.text = VisibleReply(resp'.reply) \o <<"NL", "NL">>
                                    \o h1[k + 3].content]_vars

\* C31: a reply with the marker that a turn at the terminal stage gets
\* changes neither the stage nor the facts nor the snapshots and gives no
\* error: the reply without the marker is appended to the history as the
\* assistant turn and returned as text.
C31_MarkerAtTerminalStage ==
    [][\A r \in Slots :
          (Answered(r) /\ Contains(resp'.reply, Marker)
              /\ STAGES[CurStage(req[r].sess)].next = None)
          => /\ CurStage(session') = CurStage(req[r].sess)
             /\ session'.facts = req[r].sess.facts
             /\ ~session'.completed
             /\ files' = files
             /\ resp'.kind = "text"
             /\ resp'.text # ErrorText
             /\ resp'.reply = RAdvance => resp'.text = <<"w">>
             /\ Len(session'.history) = Len(req[r].sess.history) + 1
             /\ SubSeq(session'.history, 1, Len(req[r].sess.history)) = req[r].sess.history
             /\ Last(session'.history).role = "assistant"
             /\ Last(session'.history).content = resp'.text]_vars

\* a turn at the terminal stage has got the reply "w ADVANCE_STAGE" and has
\* returned "w"
W_C31_MarkerAtFinal ==
    /\ resp.provider = "answered"
    /\ resp.reply = RAdvance
    /\ resp.text = <<"w">>
    /\ session.stage = "final"
    /\ Last(session.history).role = "assistant"

\* the facts hold a "stage complete" marker for the stage: some fact whose
\* value names it
Marked(facts, stage) == \E k \in DOMAIN facts : facts[k] = <<stage>>

\* C32: the marker written when a turn leaves a stage does not overwrite the
\* marker of an earlier stage: the stages the handler's facts marked complete
\* before the turn, and the stage the turn leaves, are marked complete in the
\* facts after it and in the snapshot the turn has written.
C32_MarkersAccumulate ==
    [][\A r \in Slots :
          (Answered(r) /\ Advances(resp'.reply, CurStage(req[r].sess)))
          => \A stage \in StageIds :
                (Marked(req[r].sess.facts, stage) \/ stage = CurStage(req[r].sess))
                => /\ Marked(session'.facts, stage)
                   /\ files' # files
                      => Marked(Last(files').assessment_data, stage)]_vars

\* C33: in every turn the language named by the directive of the system
\* prompt sent to the provider is the language the session holds, the one of
\* its first message.
C33_DirectiveNamesStickyLanguage ==
    [][Calls => Named(Sent[1].content) = Last(req').sess.language]_vars

\* the snapshot was written for the session that stores the key
Holds(snapshot, key) == key \in DOMAIN snapshot.assessment_data

\* C34: a save for one session never replaces the snapshot of another
\* session: a request of the second session leaves every file with a snapshot
\* of the first session as it is, and a request of the first session every
\* file with a snapshot of the second one (under SpecSaves the first session
\* stores k1 only, the second one k2 only).
C34_SaveKeepsOtherSessions ==
    [][/\ client' = "b" =>
            \A i \in DOMAIN files :
                Holds(files[i], "k1") => i \in DOMAIN files' /\ files'[i] = files[i]
       /\ client' = "a" =>
            \A i \in DOMAIN files :
                Holds(files[i], "k2") => i \in DOMAIN files' /\ files'[i] = files[i]]_vars

\* the fact keys of a snapshot
Keys(snapshot) == DOMAIN snapshot.assessment_data

\* C35: a save merges into the snapshot the session has: no file is removed,
\* a file that is rewritten keeps its fact keys, and the snapshot a save
\* leaves as the latest one holds every fact key of the latest one before it.
C35_SaveMerges ==
    [][files' # files =>
          /\ \A i \in DOMAIN files :
                i \in DOMAIN files' /\ Keys(files[i]) \subseteq Keys(files'[i])
          /\ files # <<>> => Keys(Last(files)) \subseteq Keys(Last(files'))]_vars

\* C36: a turn that starts with an empty history appends a system turn
\* tagged with the current stage of the session, and the user turn after it.
C36_FirstTurnSeedsHistory ==
    [][(Calls /\ Last(req').entry.history = <<>>)
          => LET h == Last(req').sess.history
             IN  /\ Len(h) = 2
                 /\ h[1].role = "system"
                 /\ h[1].stage = CurStage(Last(req').sess)
                 /\ h[2].role = "user"]_vars

\* the order of the stages of the rule-based assessment
AssessmentChain ==
    <<"introduction", "ap_et_distinction", "personality_type", "energy_pattern",
      "reinforcement_pattern", "complete">>

Position(stage) == CHOOSE i \in DOMAIN AssessmentChain : AssessmentChain[i] = stage

\* the stage b is the stage a or the one after it
OneStep(a, b) == Position(b) \in {Position(a), Position(a) + 1}

WellFormed(h) ==
    /\ h # <<>>
    /\ h[1].role = "system"
    /\ \A i \in 2..Len(h) :
          /\ h[i].role # "system"
          /\ h[i].role = "assistant" => h[i - 1].role = "user"

\* C38: every history of app_rag.py is well formed, and a provider call that
\* fails gives the apology, appends nothing and leaves the user turn as the
\* last one.
C38_RagHistoryShape ==
    [][/\ \A id \in DOMAIN conversation_history' : WellFormed(conversation_history'[id])
       /\ \A r \in DOMAIN waiting :
             (waiting' = RemoveAt(waiting, r) /\ resp'.provider = "failed")
             => /\ resp'.text = RagErrorText
                /\ conversation_history' = conversation_history]_vars

====
